---- MODULE Spec2Model ----
(***************************************************************************)
(* The persistent admin bot of sw1tch (src/sw1tch/utilities/matrix.py):    *)
(* PersistentMatrixBot.ensure_connected / _connect / _disconnect /         *)
(* send_admin_command, run by concurrent asyncio callers.                  *)
(*                                                                         *)
(* asyncio is cooperative: code between two awaits is atomic.  Every       *)
(* action below is "the awaited call completes, the code after it runs up  *)
(* to the next await, and the next awaited call is issued".  pc[p] names   *)
(* the await caller p is suspended on.                                     *)
(***************************************************************************)
EXTENDS Integers, Sequences, FiniteSets, TLC

\* ---------------------------------------------------------------- bounds
Callers == {1, 2}          \* concurrent request handlers sharing matrix_bot
MaxCalls == 2              \* calls started in one run, over all callers
MaxMsgs == 2               \* messages appearing in the control room
MaxTicks == 1              \* clock advances
MaxFaults == 1             \* network calls that fail although their client is usable
SessionAge == 290          \* seconds an established session has been idle

\* ------------------------------------------------------ program constants
StaleAfter == 300          \* ensure_connected: time_since_activity > 300
DefaultTimeout == 30       \* send_admin_command(..., timeout: int = 30, ...)

\* Steps by which the clock advances: a whole command timeout, and long
\* enough for the session to go stale.
TickSteps == {DefaultTimeout, StaleAfter + 1}

Responder == "admin"       \* config["matrix_admin"]["super_admin"]

NoClient == 0              \* self.client = None
NoTime == 0                \* self.last_activity = None (the clock starts at 1)
NoPattern == ""            \* expected_response_pattern: str = None
NoMsg == [sender |-> "none", ts |-> 0, re |-> 0, body |-> ""]

\* The bodies the responder writes: the result of a command, or an
\* intermediate status line; and the patterns the callers pass.
Bodies == {"done", "status"}
Patterns == {NoPattern, "done"}

VARIABLES
  client,         \* self.client: NoClient or the id of the AsyncClient held
  connected,      \* self.connected
  lock,           \* self.lock: 0 when free, else the caller holding it
  last_activity,  \* self.last_activity
  now,            \* time.time(), in seconds
  ticks,          \* clock advances so far
  faults,         \* network faults so far
  clients,        \* AsyncClient objects created so far (ids 1..clients)
  authed,         \* clients whose login succeeded and that were not logged out
  opened,         \* clients whose transport was not closed
  timeline,       \* message events of the control room, in stream order
  published,      \* ids of the commands that reached the control room
  calls,          \* calls started so far
  timedOut,       \* ids of the commands whose call raised TimeoutError
  pc,             \* per caller: the await it is suspended on
  loc,            \* per caller: the locals of its running call
  response,       \* a reply of the responder handed to the decoders: its lines
  decoded,        \* what the decoders made of it (empty before they ran)
  gen,            \* moderate_rooms_stream: the locals of event_generator
  emitted,        \* moderate_rooms_stream: the events yielded so far
  lateReplies,    \* replies the responder still owes to commands of the scan
                  \* whose call timed out
  registrations,  \* registrations.json: the registration entries on file
  purge           \* purge_unfulfilled_registrations: the locals of the handler

botVars == <<client, connected, lock, last_activity>>
netVars == <<clients, authed, opened, timeline, published>>
busVars == <<client, connected, lock, last_activity, now, ticks, faults, clients, authed,
             opened, timeline, published, calls, timedOut, pc, loc>>
decodeVars == <<response, decoded>>
scanVars == <<gen, emitted, lateReplies>>
purgeVars == <<registrations, purge>>
vars == <<busVars, decodeVars, scanVars, purgeVars>>

InitLoc ==
  [op |-> "none",        \* "ensure": ensure_connected(); "cmd": send_admin_command()
   force |-> FALSE,      \* force_reconnect of the running ensure_connected
   retry |-> FALSE,      \* inside the forced reconnect of the pre-send poll
   on |-> NoClient,      \* the client the pending network call was issued on
   pollConn |-> TRUE,    \* self.connected when the last poll was issued
   next_batch |-> 0,     \* the cursor
   cursorOn |-> NoClient,\* the client whose sync response gave the cursor
   query_time |-> 0,     \* the issue time
   start |-> 0,          \* start of the wait loop
   cmd |-> 0,            \* id of the command of this call
   pattern |-> NoPattern,\* expected_response_pattern
   sends |-> 0,          \* room_send calls issued in this call
   goodPoll |-> FALSE,   \* a poll of the wait loop came back well
   waitFor |-> NoClient, \* the client whose connect was in flight on arrival
   outcome |-> "none",   \* "returned", "raised" or "timeout"
   at |-> "none",        \* the await at which the call ended
   resp |-> NoMsg]       \* the event whose body was returned

BusInit ==
  /\ client = NoClient
  /\ connected = FALSE
  /\ lock = 0
  /\ last_activity = NoTime
  /\ now = 1
  /\ ticks = 0
  /\ faults = 0
  /\ clients = 0
  /\ authed = {}
  /\ opened = {}
  /\ timeline = <<>>
  /\ published = {}
  /\ calls = 0
  /\ timedOut = {}
  /\ pc = [p \in Callers |-> "idle"]
  /\ loc = [p \in Callers |-> InitLoc]


FirstCaller == CHOOSE p \in Callers : \A q \in Callers : p <= q

\* ------------------------------------------------------- pure decisions

\* A lock that never holds anybody back.
LockAlwaysFree(l) == TRUE

\* async with self.lock: the body is entered only while nobody holds the lock.
LockFree(l) == l = 0

\* if self.connected and self.last_activity: time.time() - last_activity > 300
Stale(conn, la, t) == conn /\ la # NoTime /\ t - la > StaleAfter

\* The two _disconnect() calls of ensure_connected: forced, or stale.  After
\* the first, self.connected is False and the staleness test is skipped.
MustDisconnect(force, conn, la, t) == (force /\ conn) \/ Stale(conn, la, t)

\* The connect decision taken on the client alone, the connected flag ignored.
NeedsConnectNoFlag(conn, cl) == cl = NoClient

\* The connect decision that always connects.
NeedsConnectAlways(conn, cl) == TRUE

\* if not self.connected or not self.client: await self._connect()
NeedsConnect(conn, cl) == ~conn \/ cl = NoClient

\* A loop test that never ends the loop.
LoopRunsForever(t, start, timeout) == TRUE

\* while (time.time() - start) < timeout
LoopRuns(t, start, timeout) == t - start < timeout

\* The filter without its time test.
EligibleAnyTime(e, qt) == e.sender = Responder

\* if event.sender == admin_user and event_time >= query_time
Eligible(e, qt) == e.sender = Responder /\ e.ts >= qt

\* re.search(expected_response_pattern, response_body, re.IGNORECASE), on the
\* bodies and patterns above: the pattern is the word it looks for.
Search(pat, body) == body = pat

\* A pattern test that lets every body through.
AcceptedAny(pat, body) == TRUE

\* if expected_response_pattern: if re.search(...): return ... else: continue
\* Whether an eligible event with this body ends the wait.
Accepted(pat, body) == pat = NoPattern \/ Search(pat, body)

\* sync(since=next_batch): the events after the cursor, in stream order.
NewEvents(tl, cursor) == SubSeq(tl, cursor + 1, Len(tl))

\* for event in message_events: ... return response_body
\* The first eligible event of the slice whose body passes the pattern test,
\* NoMsg when there is none.
FirstResponse(evs, qt, pat) ==
  LET hits == {i \in 1..Len(evs) : Eligible(evs[i], qt) /\ Accepted(pat, evs[i].body)}
  IN IF hits = {} THEN NoMsg
     ELSE evs[CHOOSE i \in hits : \A j \in hits : i <= j]

\* self.last_activity = time.time() runs for every eligible event the loop
\* reaches, before the pattern test: the slice held an eligible event.
SeenEligible(evs, qt) == \E i \in 1..Len(evs) : Eligible(evs[i], qt)

\* An issue time taken a whole timeout after the pre-send poll.
QueryTimeLate(t) == t + DefaultTimeout

\* query_time = time.time(), between the pre-send poll and room_send.
QueryTime(t) == t

\* except Exception as e: self.connected = False; raise
\* The value of self.connected after send_admin_command raised `kind`.
ConnectedAfterRaise(kind, conn) == FALSE

\* room_send is called once in send_admin_command: the number of room_send
\* calls of a call that had issued n of them and reaches the send statement.
SendsAfterSend(n) == n + 1

\* A request on client c can be answered: c is logged in and not closed.
Usable(c) == c \in authed /\ c \in opened

\* What a request can come back with: a response, a response carrying an
\* error, or an exception.  On an unusable client it cannot succeed; on a
\* usable one it fails only by a network fault.
Outcomes(usable) ==
  IF ~usable THEN {"error", "exception"}
  ELSE IF faults < MaxFaults THEN {"ok", "error", "exception"}
  ELSE {"ok"}

FaultsAfter(usable, o) == IF usable /\ o # "ok" THEN faults + 1 ELSE faults

\* The client whose connect is in flight (its login, join or initial sync is
\* awaited under the lock), NoClient when no connect is in flight.
InFlight ==
  IF lock # 0 /\ pc[lock] \in {"login", "join", "init_sync"} THEN client ELSE NoClient

\* The locals kept of a call that ended.
Ended(p, l, how, ev) ==
  [InitLoc EXCEPT !.op = l.op, !.cmd = l.cmd, !.pattern = l.pattern,
                  !.query_time = l.query_time,
                  !.outcome = how, !.at = pc[p], !.resp = ev]

\* send_matrix_admin_command (routes/admin.py): what the caller of the
\* endpoint is told about a call that ended with `outcome`.
\*   except TimeoutError: "Command timed out: ..."; except Exception: str(e)
CommandReport(outcome) ==
  IF outcome = "returned" THEN "success"
  ELSE IF outcome = "timeout" THEN "command timed out"
  ELSE "error"

\* ------------------------------------------------ pieces of the handlers
\* Each piece takes the caller p and its locals l, and sets client, connected,
\* lock, last_activity, clients, opened, timedOut, pc and loc; the actions
\* set the remaining variables.

\* _connect, up to its first await: self.client = AsyncClient(...); login issued.
BeginConnect(p, l, conn, op) ==
  /\ client' = clients + 1
  /\ clients' = clients + 1
  /\ opened' = op \cup {clients + 1}
  /\ connected' = conn
  /\ lock' = p
  /\ pc' = [pc EXCEPT ![p] = "login"]
  /\ loc' = [loc EXCEPT ![p] = [l EXCEPT !.on = clients + 1]]
  /\ UNCHANGED <<last_activity, timedOut>>

\* ensure_connected returns: the lock is released; a standalone call is over,
\* send_admin_command goes on to its pre-send sync on self.client.
EnsureReturns(p, l, conn, la) ==
  /\ connected' = conn
  /\ last_activity' = la
  /\ lock' = 0
  /\ IF l.op = "ensure"
     THEN /\ pc' = [pc EXCEPT ![p] = "idle"]
          /\ loc' = [loc EXCEPT ![p] = Ended(p, l, "returned", NoMsg)]
     ELSE /\ pc' = [pc EXCEPT ![p] = "pre_sync"]
          /\ loc' = [loc EXCEPT ![p] = [l EXCEPT !.on = client, !.pollConn = conn]]
  /\ UNCHANGED <<client, clients, opened, timedOut>>

\* An exception of _connect that leaves ensure_connected with the lock held.
EnsureRaisesKeepsLock(p, l) ==
  /\ client' = NoClient
  /\ connected' = FALSE
  /\ pc' = [pc EXCEPT ![p] = "idle"]
  /\ loc' = [q \in Callers |->
               IF q = p THEN Ended(p, l, "raised", NoMsg)
               ELSE [loc[q] EXCEPT !.waitFor = NoClient]]
  /\ UNCHANGED <<lock, last_activity, clients, opened, timedOut>>

\* _connect's except branch: self.connected = False; self.client = None; raise.
\* The exception leaves ensure_connected (releasing the lock) and the call.
EnsureRaises(p, l) ==
  /\ client' = NoClient
  /\ connected' = FALSE
  /\ lock' = 0
  /\ pc' = [pc EXCEPT ![p] = "idle"]
  /\ loc' = [q \in Callers |->
               IF q = p THEN Ended(p, l, "raised", NoMsg)
               ELSE [loc[q] EXCEPT !.waitFor = NoClient]]
  /\ UNCHANGED <<last_activity, clients, opened, timedOut>>

\* ensure_connected, from the acquisition of the lock to its first await (the
\* logout of _disconnect or the login of _connect) or to its return.
EnsureBody(p, l) ==
  IF MustDisconnect(l.force, connected, last_activity, now)
  THEN IF client # NoClient
       THEN /\ lock' = p
            /\ pc' = [pc EXCEPT ![p] = "logout"]
            /\ loc' = [loc EXCEPT ![p] = [l EXCEPT !.on = client]]
            /\ UNCHANGED <<client, connected, last_activity, clients, opened, timedOut>>
       ELSE BeginConnect(p, l, FALSE, opened)
  ELSE IF NeedsConnect(connected, client)
       THEN BeginConnect(p, l, connected, opened)
       ELSE EnsureReturns(p, l, connected, last_activity)

\* await self.ensure_connected(...): an uncontended asyncio.Lock is taken
\* without suspending; a held one suspends the caller until it is released.
EnterEnsure(p, l) ==
  IF LockFree(lock)
  THEN EnsureBody(p, [l EXCEPT !.waitFor = NoClient])
  ELSE /\ pc' = [pc EXCEPT ![p] = "ec_lock"]
       /\ loc' = [loc EXCEPT ![p] = [l EXCEPT !.waitFor = InFlight]]
       /\ UNCHANGED <<client, connected, lock, last_activity, clients, opened, timedOut>>

\* An except branch that drops the client and leaves the connected flag.
CommandRaisesDropsClient(p, l, kind) ==
  /\ client' = NoClient
  /\ pc' = [pc EXCEPT ![p] = "idle"]
  /\ loc' = [loc EXCEPT ![p] = Ended(p, l, kind, NoMsg)]
  /\ timedOut' = IF kind = "timeout" THEN timedOut \cup {l.cmd} ELSE timedOut
  /\ UNCHANGED <<connected, lock, last_activity, clients, opened>>

\* send_admin_command's outer except branch, reached with exception `kind`.
CommandRaises(p, l, kind) ==
  /\ connected' = ConnectedAfterRaise(kind, connected)
  /\ pc' = [pc EXCEPT ![p] = "idle"]
  /\ loc' = [loc EXCEPT ![p] = Ended(p, l, kind, NoMsg)]
  /\ timedOut' = IF kind = "timeout" THEN timedOut \cup {l.cmd} ELSE timedOut
  /\ UNCHANGED <<client, lock, last_activity, clients, opened>>

\* A failed room_send that is tried again instead of raising.
SendAgain(p, l) ==
  /\ loc' = [loc EXCEPT ![p] = [l EXCEPT !.sends = @ + 1]]
  /\ UNCHANGED <<client, connected, lock, last_activity, clients, opened, timedOut, pc>>

\* if getattr(send_response, "error", None): raise Exception(...), and an
\* exception of room_send itself: the command is not sent again.
SendFailed(p, l) == CommandRaises(p, l, "raised")

\* The head of the wait loop: the loop test, then
\* self.client.sync(timeout=2000, since=next_batch).  With self.client = None
\* the attribute error is caught by the inner except, which sleeps.  When the
\* loop test fails, TimeoutError is raised.
EnterLoop(p, l) ==
  IF LoopRuns(now, l.start, DefaultTimeout)
  THEN /\ IF client = NoClient
          THEN /\ pc' = [pc EXCEPT ![p] = "sleep"]
               /\ loc' = [loc EXCEPT ![p] = l]
          ELSE /\ pc' = [pc EXCEPT ![p] = "wait_sync"]
               /\ loc' = [loc EXCEPT ![p] = [l EXCEPT !.on = client, !.pollConn = connected]]
       /\ UNCHANGED <<client, connected, lock, last_activity, clients, opened, timedOut>>
  ELSE CommandRaises(p, l, "timeout")

\* ------------------------------------------------------------ the callers

\* The handlers are interchangeable: the first call of a run is followed on
\* the first of them.
MayStart(p) == pc[p] = "idle" /\ calls < MaxCalls /\ (calls = 0 => p = FirstCaller)

\* A handler calls matrix_bot.ensure_connected() (routes/admin.py).
StartEnsure(p) ==
  /\ MayStart(p)
  /\ calls' = calls + 1
  /\ EnterEnsure(p, [InitLoc EXCEPT !.op = "ensure"])
  /\ UNCHANGED <<authed, timeline, published, now, ticks, faults>>
  /\ UNCHANGED <<decodeVars, scanVars, purgeVars>>

\* A handler calls matrix_bot.send_admin_command(command), with or without
\* an expected_response_pattern: its first statement is
\* await self.ensure_connected(force_reconnect=False).
StartCommand(p) ==
  /\ MayStart(p)
  /\ calls' = calls + 1
  /\ \E pat \in Patterns :
       EnterEnsure(p, [InitLoc EXCEPT !.op = "cmd", !.cmd = calls + 1, !.pattern = pat])
  /\ UNCHANGED <<authed, timeline, published, now, ticks, faults>>
  /\ UNCHANGED <<decodeVars, scanVars, purgeVars>>

\* A caller suspended on the lock gets it once it is free.
EcAcquire(p) ==
  /\ pc[p] = "ec_lock"
  /\ LockFree(lock)
  /\ EnsureBody(p, loc[p])
  /\ UNCHANGED <<authed, timeline, published, now, ticks, faults, calls>>
  /\ UNCHANGED <<decodeVars, scanVars, purgeVars>>

\* _disconnect: await self.client.logout() completes.  An exception skips
\* close(); the method then ends with client = None, connected = False and
\* ensure_connected goes on to _connect.
LogoutDone(p) ==
  /\ pc[p] = "logout"
  /\ \E o \in Outcomes(Usable(loc[p].on)) :
       /\ faults' = FaultsAfter(Usable(loc[p].on), o)
       /\ authed' = IF o = "ok" THEN authed \ {loc[p].on} ELSE authed
       /\ IF o = "exception"
          THEN BeginConnect(p, loc[p], FALSE, opened)
          ELSE /\ pc' = [pc EXCEPT ![p] = "close"]
               /\ UNCHANGED <<client, connected, lock, last_activity, clients,
                              opened, timedOut, loc>>
  /\ UNCHANGED <<timeline, published, now, ticks, calls>>
  /\ UNCHANGED <<decodeVars, scanVars, purgeVars>>

\* _disconnect: await self.client.close() completes; then client = None,
\* connected = False, and _connect starts.
CloseDone(p) ==
  /\ pc[p] = "close"
  /\ BeginConnect(p, loc[p], FALSE, opened \ {loc[p].on})
  /\ UNCHANGED <<authed, timeline, published, now, ticks, faults, calls>>
  /\ UNCHANGED <<decodeVars, scanVars, purgeVars>>

\* _connect: await self.client.login(password) completes.
LoginDone(p) ==
  /\ pc[p] = "login"
  /\ \E o \in Outcomes(TRUE) :
       /\ faults' = FaultsAfter(TRUE, o)
       /\ IF o = "ok"
          THEN /\ authed' = authed \cup {loc[p].on}
               /\ pc' = [pc EXCEPT ![p] = "join"]
               /\ UNCHANGED <<client, connected, lock, last_activity, clients, opened,
                              timedOut, loc>>
          ELSE /\ EnsureRaises(p, loc[p])
               /\ UNCHANGED authed
  /\ UNCHANGED <<timeline, published, now, ticks, calls>>
  /\ UNCHANGED <<decodeVars, scanVars, purgeVars>>

\* _connect: await self.client.join(room) completes.  Its response is not
\* inspected: only an exception stops the connect.
JoinDone(p) ==
  /\ pc[p] = "join"
  /\ \E o \in Outcomes(Usable(loc[p].on)) :
       /\ faults' = FaultsAfter(Usable(loc[p].on), o)
       /\ IF o = "exception"
          THEN EnsureRaises(p, loc[p])
          ELSE /\ pc' = [pc EXCEPT ![p] = "init_sync"]
               /\ UNCHANGED <<client, connected, lock, last_activity, clients, opened,
                              timedOut, loc>>
  /\ UNCHANGED <<authed, timeline, published, now, ticks, calls>>
  /\ UNCHANGED <<decodeVars, scanVars, purgeVars>>

\* _connect: the initial sync completes; on success connected = True and
\* last_activity = time.time(), and ensure_connected returns.
InitSyncDone(p) ==
  /\ pc[p] = "init_sync"
  /\ \E o \in Outcomes(Usable(loc[p].on)) :
       /\ faults' = FaultsAfter(Usable(loc[p].on), o)
       /\ IF o = "ok" THEN EnsureReturns(p, loc[p], TRUE, now) ELSE EnsureRaises(p, loc[p])
  /\ UNCHANGED <<authed, timeline, published, now, ticks, calls>>
  /\ UNCHANGED <<decodeVars, scanVars, purgeVars>>

\* send_admin_command: a pre-send sync completes (the first one, or the one
\* after the forced reconnect).  A good response fixes next_batch and
\* query_time, and room_send is issued on self.client.  An error response of
\* the first sync leads to ensure_connected(force_reconnect=True); one of the
\* second has no next_batch, which raises.
PreSyncDone(p) ==
  /\ pc[p] = "pre_sync"
  /\ \E o \in Outcomes(Usable(loc[p].on)) :
       /\ faults' = FaultsAfter(Usable(loc[p].on), o)
       /\ IF o = "ok"
          THEN IF client = NoClient
               THEN CommandRaises(p, loc[p], "raised")
               ELSE /\ pc' = [pc EXCEPT ![p] = "send"]
                    /\ loc' = [loc EXCEPT ![p].next_batch = Len(timeline),
                                          ![p].cursorOn = loc[p].on,
                                          ![p].query_time = QueryTime(now),
                                          ![p].on = client,
                                          ![p].sends = SendsAfterSend(@)]
                    /\ UNCHANGED <<client, connected, lock, last_activity, clients,
                                   opened, timedOut>>
          ELSE IF o = "error" /\ ~loc[p].retry
               THEN EnterEnsure(p, [loc[p] EXCEPT !.force = TRUE, !.retry = TRUE])
               ELSE CommandRaises(p, loc[p], "raised")
  /\ UNCHANGED <<authed, timeline, published, now, ticks, calls>>
  /\ UNCHANGED <<decodeVars, scanVars, purgeVars>>

\* send_admin_command: room_send completes.  On success the wait loop starts.
SendDone(p) ==
  /\ pc[p] = "send"
  /\ \E o \in Outcomes(Usable(loc[p].on)) :
       /\ faults' = FaultsAfter(Usable(loc[p].on), o)
       /\ IF o = "ok"
          THEN /\ published' = published \cup {loc[p].cmd}
               /\ EnterLoop(p, [loc[p] EXCEPT !.start = now])
          ELSE /\ SendFailed(p, loc[p])
               /\ UNCHANGED published
  /\ UNCHANGED <<authed, timeline, now, ticks, calls>>
  /\ UNCHANGED <<decodeVars, scanVars, purgeVars>>

\* send_admin_command: a sync of the wait loop completes.  A good response
\* advances the cursor; every eligible event stamps last_activity, and the
\* first one that passes the pattern test ends the call; otherwise (and on an
\* error or exception) the loop sleeps.
WaitSyncDone(p) ==
  /\ pc[p] = "wait_sync"
  /\ \E o \in Outcomes(Usable(loc[p].on)) :
       LET evs == NewEvents(timeline, loc[p].next_batch)
           hit == FirstResponse(evs, loc[p].query_time, loc[p].pattern)
       IN /\ faults' = FaultsAfter(Usable(loc[p].on), o)
          /\ last_activity' = IF o = "ok" /\ SeenEligible(evs, loc[p].query_time)
                              THEN now ELSE last_activity
          /\ IF o = "ok" /\ hit # NoMsg
             THEN /\ pc' = [pc EXCEPT ![p] = "idle"]
                  /\ loc' = [loc EXCEPT ![p] = Ended(p, loc[p], "returned", hit)]
             ELSE /\ pc' = [pc EXCEPT ![p] = "sleep"]
                  /\ loc' = [loc EXCEPT ![p].next_batch =
                                          IF o = "ok" THEN Len(timeline) ELSE @,
                                        ![p].cursorOn =
                                          IF o = "ok" THEN loc[p].on ELSE @,
                                        ![p].goodPoll = @ \/ o = "ok"]
  /\ UNCHANGED <<client, connected, lock, clients, authed, opened, timeline,
                 published, now, ticks, calls, timedOut>>
  /\ UNCHANGED <<decodeVars, scanVars, purgeVars>>

\* send_admin_command: asyncio.sleep returns and the loop test runs again.
SleepDone(p) ==
  /\ pc[p] = "sleep"
  /\ EnterLoop(p, loc[p])
  /\ UNCHANGED <<authed, timeline, published, now, ticks, faults, calls>>
  /\ UNCHANGED <<decodeVars, scanVars, purgeVars>>

\* --------------------------------------------------------- the environment

\* Time passes.  The steps are long ones, so they are taken where the
\* program waits that long: in the sleep of a wait loop, or between calls.
Tick ==
  /\ ticks < MaxTicks
  /\ (\E p \in Callers : pc[p] = "sleep") \/ (\A p \in Callers : pc[p] = "idle")
  /\ \E d \in TickSteps : now' = now + d
  /\ ticks' = ticks + 1
  /\ UNCHANGED <<botVars, netVars, faults, calls, timedOut, pc, loc>>
  /\ UNCHANGED <<decodeVars, scanVars, purgeVars>>

\* Time passes while a call is in its wait loop: the syncs and sleeps it
\* awaits take time, and a timeout's worth of them brings the clock to the
\* end of the loop.  (Tick lets time pass MaxTicks times; this step is not
\* counted, and is possible once for each wait loop.)
Elapse ==
  /\ \E p \in Callers :
       /\ pc[p] \in {"wait_sync", "sleep"}
       /\ now - loc[p].start < DefaultTimeout
  /\ now' = now + DefaultTimeout
  /\ UNCHANGED <<botVars, netVars, ticks, faults, calls, timedOut, pc, loc>>
  /\ UNCHANGED <<decodeVars, scanVars, purgeVars>>

\* The bodies a new message is followed with.  Only the pattern test reads a
\* body, and a call reads only messages that appear after its pre-send poll:
\* while no call with a pattern is in progress the body makes no difference,
\* and one body stands for all.
BodiesRead ==
  IF \E p \in Callers : pc[p] # "idle" /\ loc[p].pattern # NoPattern
  THEN Bodies ELSE {"done"}

\* The responder answers a published command: its reply appears in the
\* control room with the current server time.  Messages are followed while a
\* command is in progress: one that appeared before lies behind the cursor
\* exactly like one that appears during the pre-send sync.
PostReply ==
  /\ Len(timeline) < MaxMsgs
  /\ \E p \in Callers : pc[p] \in {"pre_sync", "send", "wait_sync", "sleep"}
  /\ \E c \in published, b \in BodiesRead :
       timeline' = Append(timeline, [sender |-> Responder, ts |-> now, re |-> c, body |-> b])
  /\ UNCHANGED <<botVars, clients, authed, opened, published, now, ticks, faults,
                 calls, timedOut, pc, loc>>
  /\ UNCHANGED <<decodeVars, scanVars, purgeVars>>

\* Another message appears in the control room: one of somebody else (the
\* bot's own echo included), or one of the responder that answers no command
\* of the bot, stamped now or with an old origin time (0, before every issue
\* time).
PostOther ==
  /\ Len(timeline) < MaxMsgs
  /\ \E p \in Callers : pc[p] \in {"pre_sync", "send", "wait_sync", "sleep"}
  /\ \E m \in {[sender |-> "other", ts |-> now, re |-> 0, body |-> "done"],
               [sender |-> Responder, ts |-> 0, re |-> 0, body |-> "done"]} :
       timeline' = Append(timeline, m)
  /\ UNCHANGED <<botVars, clients, authed, opened, published, now, ticks, faults,
                 calls, timedOut, pc, loc>>
  /\ UNCHANGED <<decodeVars, scanVars, purgeVars>>

\* asyncio.Lock hands a released lock to the caller suspended on it: the
\* waiter is scheduled at the release and runs before any network call of
\* another caller can complete.
WaiterReady == LockFree(lock) /\ \E p \in Callers : pc[p] = "ec_lock"

CallerStep(p) ==
  \/ StartEnsure(p)
  \/ StartCommand(p)
  \/ LogoutDone(p)
  \/ CloseDone(p)
  \/ LoginDone(p)
  \/ JoinDone(p)
  \/ InitSyncDone(p)
  \/ PreSyncDone(p)
  \/ SendDone(p)
  \/ WaitSyncDone(p)
  \/ SleepDone(p)

Environment == Tick \/ PostReply \/ PostOther

\* ------------------------------------------------------------ the decoders
\* A reply of the responder is text.  The decoders split it into lines and
\* test each line against a regular expression, so a reply is modelled as the
\* sequence of its lines, and a line by what the expressions can tell of it.

MaxLines == 5              \* lines of a reply handed to the decoders

Line(k, id, n, name) == [k |-> k, id |-> id, n |-> n, name |-> name]

LabelLine == Line("label", "", 0, "Rooms")     \* 'Rooms:', text ending in a colon
FenceLine == Line("fence", "", 0, "")          \* '```'
TextLine == Line("text", "!a", 0, "")          \* '!a Members: many', no room line
MemberLine == Line("member", "@u", 0, "u")     \* '@u:example.org | u'

\* '<room-id> Members: <n> Name: <text>'
RoomLines ==
  {Line("room", "!a", 5, "bad"), Line("room", "!b", 5, "ok"),
   Line("room", "!c", 2, "bad"), Line("room", "!d", 7, "bad")}

Lines == RoomLines \cup {LabelLine, FenceLine, TextLine, MemberLine}

\* The replies: a reply with an empty body is never handed to a decoder.
Responses == UNION {[1..n -> Lines] : n \in 1..MaxLines}

\* A room pattern that also takes a line whose member count is no number.
RoomMatchLoose(line) == line.k \in {"room", "text"}

\* re.match(r"(!\S+)\s+Members: (\d+)\s+Name: (.*)", line)
RoomMatch(line) == line.k = "room"

\* re.match(r"(@\S+)\s*\|\s*(\S+)", line)
MemberMatch(line) == line.k = "member"

\* {'room_id': group(1), 'members': int(group(2)), 'name': group(3).strip()}
RoomSummary(line) == [room_id |-> line.id, members |-> line.n, name |-> line.name]

\* {'user_id': group(1), 'display_name': group(2)}
MemberEntry(line) == [user_id |-> line.id, display_name |-> line.name]

RECURSIVE RoomsIn(_)
\* for line in lines: match = re.match(room_pattern, line)
\*                    if match: rooms.append({...})
RoomsIn(lines) ==
  IF lines = <<>> THEN <<>>
  ELSE (IF RoomMatch(Head(lines)) THEN <<RoomSummary(Head(lines))>> ELSE <<>>)
       \o RoomsIn(Tail(lines))

RECURSIVE MembersIn(_)
\* for line in lines: match = re.match(member_pattern, line)
\*                    if match: members.append({...})
MembersIn(lines) ==
  IF lines = <<>> THEN <<>>
  ELSE (IF MemberMatch(Head(lines)) THEN <<MemberEntry(Head(lines))>> ELSE <<>>)
       \o MembersIn(Tail(lines))

\* routes/admin.py: every line of the reply is tried.
parse_rooms_response(resp) == RoomsIn(resp)

parse_members_response(resp) == MembersIn(resp)

\* re.search(r"(.*?):\s*\n```\s*\n([\s\S]*?)\n```", response_text): the lines i
\* at which a match can start.  Line i ends in a colon, the next line is a
\* fence, and a closing fence follows after at least one line of content
\* ('```\n```' leaves no '\n' for the closing '\n```').
BlockStarts(lines) ==
  {i \in 1..Len(lines) :
     /\ lines[i].k = "label"
     /\ i + 1 <= Len(lines)
     /\ lines[i + 1].k = "fence"
     /\ \E m \in (i + 3)..Len(lines) : lines[m].k = "fence"}

\* The dict parse_response returns when there is no match.
NoBlock == [keys |-> {"response"}, array_key |-> "", message |-> "", items |-> <<>>]

\* parse_response(response_text, query): the leftmost match, its content
\* ending at the first closing fence; array_key is the first word of the query.
parse_response(lines, array_key) ==
  IF BlockStarts(lines) = {} THEN NoBlock
  ELSE LET i == CHOOSE a \in BlockStarts(lines) : \A b \in BlockStarts(lines) : a <= b
           closing == {m \in (i + 3)..Len(lines) : lines[m].k = "fence"}
           m == CHOOSE a \in closing : \A b \in closing : a <= b
       IN [keys |-> {"message", array_key}, array_key |-> array_key,
           message |-> lines[i].name, items |-> SubSeq(lines, i + 2, m - 1)]

\* parsed.get(key, [])
DictGet(parsed, key) ==
  IF key \in parsed.keys /\ key = parsed.array_key THEN parsed.items ELSE <<>>

\* get_matrix_rooms, from "# Parse the response" on.
get_matrix_rooms(resp) == RoomsIn(DictGet(parse_response(resp, "rooms"), "rooms"))

\* get_matrix_users: parsed.get("users", []), the lines as they are.
get_matrix_users(resp) == DictGet(parse_response(resp, "users"), "users")

\* What get_room_members ends with when its decoding raises: the KeyError is
\* caught by except Exception and becomes HTTPException(500).
DecodeRaised ==
  [raised |-> TRUE, room_name |-> "", total_members |-> 0, local_members |-> <<>>]

\* get_room_members, from "# Parse the response" on.  parsed["message"] is
\* read without a default.  The header pattern ends in '":' while the message
\* has lost its closing colon to parse_response, so message_match is None:
\* total_members is 0 and room_name the room id.
get_room_members(resp, room_id) ==
  LET parsed == parse_response(resp, "members")
  IN IF "message" \notin parsed.keys THEN DecodeRaised
     ELSE [raised |-> FALSE, room_name |-> room_id, total_members |-> 0,
           local_members |-> MembersIn(DictGet(parsed, "members"))]

\* The five decoders run on the reply.
Decode ==
  /\ decoded = <<>>
  /\ decoded' = <<[stream_rooms |-> parse_rooms_response(response),
                   stream_members |-> parse_members_response(response),
                   rooms |-> get_matrix_rooms(response),
                   users |-> get_matrix_users(response),
                   members |-> get_room_members(response, "!a")]>>
  /\ UNCHANGED <<response, busVars, scanVars, purgeVars>>

\* ---------------------------------------------------- the moderation scan
\* event_generator of moderate_rooms_stream (routes/admin.py).  Its awaits are
\* matrix_bot.ensure_connected() and matrix_bot.send_admin_command(); an
\* action is one of these calls ending and the generator running on, yielding
\* events, up to its next call.

MaxPages == 2              \* pages of rooms the responder has to list
PageSize == 2              \* room lines of one page

SmallRoom == 3             \* if room["members"] < 3: continue

\* The names a pattern of room-ban-regex.txt is found in.
BannedNames == {"bad"}

check_banned_room_name(room_name) == room_name \in BannedNames

\* The responder's replies to 'rooms list-rooms <page>': the room lines of the
\* page, or a line without rooms past the last page; and its reply to
\* 'rooms info list-joined-members <room>'.
RoomPages == UNION {[1..n -> RoomLines] : n \in 1..PageSize}
NoRoomsReply == <<TextLine>>
MembersReply == <<MemberLine>>

PageReplies(page) == IF page <= MaxPages THEN RoomPages ELSE {NoRoomsReply}

\* An event of the stream: its kind, the room and page it is about, and the
\* counts it carries (0 where the event has no such field).
Ev(kind, room, page, checked, found) ==
  [kind |-> kind, room |-> room, page |-> page, checked |-> checked, found |-> found]

InitGen ==
  [at |-> "new",         \* the await the generator is suspended on
   page |-> 0,
   total_rooms |-> 0,
   total_banned |-> 0,
   rooms |-> <<>>,       \* the rooms of the page in work
   idx |-> 0,            \* the place in rooms of the room in work
   got |-> "none"]       \* how the last send_admin_command ended

ScanIdle == gen = InitGen /\ emitted = <<>> /\ lateReplies = 0

\* How an awaited send_admin_command can end.  It returns the body of the
\* first message of the responder at or after its issue time: the reply to
\* its command ("reply"), or the reply still owed to an earlier command whose
\* call timed out ("late"); or it raises TimeoutError ("timeout") or another
\* exception ("error").
CommandResults ==
  {"reply", "timeout", "error"} \cup (IF lateReplies > 0 THEN {"late"} ELSE {})

\* for room in rooms: if room["members"] < 3: continue
\*                    if check_banned_room_name(room["name"]): ...
\* The place of the next room the loop stops at, from place `from` on; 0 when
\* the loop runs to its end.
NextMatch(rooms, from) ==
  LET hits == {i \in from..Len(rooms) :
                 rooms[i].members >= SmallRoom /\ check_banned_room_name(rooms[i].name)}
  IN IF hits = {} THEN 0 ELSE CHOOSE i \in hits : \A j \in hits : i <= j

\* A loop that yields banned_room_found with the count as it was before the
\* room was counted.
ContinuePageStaleCount(g, evs, from) ==
  LET i == NextMatch(g.rooms, from)
  IN IF i # 0
     THEN /\ gen' = [g EXCEPT !.at = "members", !.idx = i, !.total_banned = @ + 1]
          /\ emitted' = Append(evs, Ev("banned_room_found", g.rooms[i].room_id, g.page,
                                       0, g.total_banned))
     ELSE /\ gen' = [g EXCEPT !.at = "page", !.idx = 0, !.rooms = <<>>, !.page = @ + 1]
          /\ emitted' = Append(evs, Ev("progress", "", g.page + 1, 0, 0))

\* The for loop over the rooms of the page, entered at place `from`, after
\* the events evs: at a match, total_banned += 1, banned_room_found is
\* yielded and the member-list command is sent; at the end of the page,
\* page += 1, the progress event of the next page is yielded and its page
\* command is sent.
ContinuePage(g, evs, from) ==
  LET i == NextMatch(g.rooms, from)
  IN IF i # 0
     THEN /\ gen' = [g EXCEPT !.at = "members", !.idx = i, !.total_banned = @ + 1]
          /\ emitted' = Append(evs, Ev("banned_room_found", g.rooms[i].room_id, g.page,
                                       0, g.total_banned + 1))
     ELSE /\ gen' = [g EXCEPT !.at = "page", !.idx = 0, !.rooms = <<>>, !.page = @ + 1]
          /\ emitted' = Append(evs, Ev("progress", "", g.page + 1, 0, 0))

\* After the while loop: the 'complete' event with the two totals.
Finish(g, evs) ==
  /\ gen' = [g EXCEPT !.at = "done", !.idx = 0, !.rooms = <<>>]
  /\ emitted' = Append(evs, Ev("complete", "", 0, g.total_rooms, g.total_banned))

\* The page command returned `body`: rooms = parse_rooms_response(response);
\* no rooms, or only small ones, end the loop.
AfterPage(g, body) ==
  LET rooms == parse_rooms_response(body)
  IN IF rooms = <<>> THEN Finish(g, emitted)
     ELSE IF \A i \in 1..Len(rooms) : rooms[i].members < SmallRoom
     THEN Finish(g, Append(emitted, Ev("info", "", g.page, 0, 0)))
     ELSE ContinuePage([g EXCEPT !.rooms = rooms, !.total_rooms = @ + Len(rooms)],
                       emitted, 1)

\* The generator is started: 'starting' is yielded, ensure_connected called.
ScanStart ==
  /\ gen.at = "new"
  /\ gen' = [gen EXCEPT !.at = "connect"]
  /\ emitted' = <<Ev("starting", "", 0, 0, 0)>>
  /\ UNCHANGED <<lateReplies, busVars, decodeVars, purgeVars>>

\* ensure_connected ends.  When it returns, 'connected' and the progress
\* event of page 1 are yielded and the first page command is sent; when it
\* raises, the outer except yields the error event and the generator ends.
ConnectDone ==
  /\ gen.at = "connect"
  /\ \E ok \in BOOLEAN :
       IF ok
       THEN /\ gen' = [gen EXCEPT !.at = "page", !.page = 1]
            /\ emitted' = emitted \o <<Ev("connected", "", 0, 0, 0),
                                       Ev("progress", "", 1, 0, 0)>>
       ELSE /\ gen' = [gen EXCEPT !.at = "done", !.got = "error"]
            /\ emitted' = Append(emitted, Ev("fatal", "", 0, 0, 0))
  /\ UNCHANGED <<lateReplies, busVars, decodeVars, purgeVars>>

\* The page command ends.  An exception (TimeoutError included) yields the
\* error event and leaves the while loop.
PageDone ==
  /\ gen.at = "page"
  /\ \E r \in CommandResults :
       LET g == [gen EXCEPT !.got = r]
       IN /\ lateReplies' = IF r = "late" THEN lateReplies - 1 ELSE lateReplies
          /\ IF r = "reply" THEN \E body \in PageReplies(gen.page) : AfterPage(g, body)
             ELSE IF r = "late" THEN AfterPage(g, MembersReply)
             ELSE Finish(g, Append(emitted, Ev("page_error", "", gen.page, 0, 0)))
  /\ UNCHANGED <<busVars, decodeVars, purgeVars>>

\* The member-list command of the room in work ends: room_members is
\* yielded, or the error event of the room (except TimeoutError, except
\* Exception), and the for loop goes on with the next room.
MembersDone ==
  /\ gen.at = "members"
  /\ \E r \in CommandResults :
       LET g == [gen EXCEPT !.got = r]
           room == gen.rooms[gen.idx].room_id
           kind == IF r = "timeout" THEN "member_timeout"
                   ELSE IF r = "error" THEN "member_error"
                   ELSE "room_members"
       IN /\ lateReplies' = IF r = "late" THEN lateReplies - 1
                            ELSE IF r = "timeout" THEN lateReplies + 1
                            ELSE lateReplies
          /\ ContinuePage(g, Append(emitted, Ev(kind, room, gen.page, 0, 0)), gen.idx + 1)
  /\ UNCHANGED <<busVars, decodeVars, purgeVars>>


\* -------------------------------------------------- the one-shot operations
\* get_matrix_users, get_matrix_rooms and get_room_members (utilities/
\* matrix.py) do not use matrix_bot: each call creates its own AsyncClient,
\* logs in, joins, syncs, sends its command, waits for the reply, logs out
\* and closes.  The three run the same statements up to the decoding of the
\* reply; pc[p] names the await the call is suspended on.

OneShotOps == {"users", "rooms", "members"}

OneShotTimeout == 10       \* timeout_seconds = 10

\* Steps of the clock while a one-shot call waits: a moment, and the timeout.
OneShotSteps == {1, OneShotTimeout}

\* except Exception as e: await client.close(); raise HTTPException(500).
OsRaises(p, how) ==
  /\ opened' = opened \ {loc[p].on}
  /\ pc' = [pc EXCEPT ![p] = "idle"]
  /\ loc' = [loc EXCEPT ![p] = Ended(p, loc[p], how, NoMsg)]

\* A handler calls one of the three: client = AsyncClient(homeserver, username)
\* and the login is issued.
OsStart(p) ==
  /\ MayStart(p)
  /\ calls' = calls + 1
  /\ clients' = clients + 1
  /\ opened' = opened \cup {clients + 1}
  /\ pc' = [pc EXCEPT ![p] = "os_login"]
  /\ \E op \in OneShotOps :
       loc' = [loc EXCEPT ![p] = [InitLoc EXCEPT !.op = op, !.cmd = calls + 1,
                                                 !.on = clients + 1]]
  /\ UNCHANGED <<botVars, authed, timeline, published, now, ticks, faults, timedOut>>
  /\ UNCHANGED <<decodeVars, scanVars, purgeVars>>

\* await client.login(password) completes; an error response raises.
OsLoginDone(p) ==
  /\ pc[p] = "os_login"
  /\ \E o \in Outcomes(TRUE) :
       /\ faults' = FaultsAfter(TRUE, o)
       /\ IF o = "ok"
          THEN /\ authed' = authed \cup {loc[p].on}
               /\ pc' = [pc EXCEPT ![p] = "os_join"]
               /\ UNCHANGED <<opened, loc>>
          ELSE /\ OsRaises(p, "raised")
               /\ UNCHANGED authed
  /\ UNCHANGED <<botVars, clients, timeline, published, now, ticks, calls, timedOut>>
  /\ UNCHANGED <<decodeVars, scanVars, purgeVars>>

\* await client.join(admin_room) completes; its response is not inspected.
OsJoinDone(p) ==
  /\ pc[p] = "os_join"
  /\ \E o \in Outcomes(Usable(loc[p].on)) :
       /\ faults' = FaultsAfter(Usable(loc[p].on), o)
       /\ IF o = "exception"
          THEN OsRaises(p, "raised")
          ELSE /\ pc' = [pc EXCEPT ![p] = "os_init_sync"]
               /\ UNCHANGED <<opened, loc>>
  /\ UNCHANGED <<botVars, clients, authed, timeline, published, now, ticks, calls,
                 timedOut>>
  /\ UNCHANGED <<decodeVars, scanVars, purgeVars>>

\* initial_sync = await client.sync(timeout=5000) completes;
\* next_batch = initial_sync.next_batch (an error response has none, which
\* raises), and room_send is issued.
OsInitSyncDone(p) ==
  /\ pc[p] = "os_init_sync"
  /\ \E o \in Outcomes(Usable(loc[p].on)) :
       /\ faults' = FaultsAfter(Usable(loc[p].on), o)
       /\ IF o = "ok"
          THEN /\ pc' = [pc EXCEPT ![p] = "os_send"]
               /\ loc' = [loc EXCEPT ![p].next_batch = Len(timeline)]
               /\ UNCHANGED opened
          ELSE OsRaises(p, "raised")
  /\ UNCHANGED <<botVars, clients, authed, timeline, published, now, ticks, calls,
                 timedOut>>
  /\ UNCHANGED <<decodeVars, scanVars, purgeVars>>

\* query_time = time.time(); start_time = time.time(); the first sync of the
\* wait loop is issued (0 < timeout_seconds).
OsEnterLoop(p) ==
  /\ pc' = [pc EXCEPT ![p] = "os_wait"]
  /\ loc' = [loc EXCEPT ![p].query_time = now, ![p].start = now, ![p].sends = 1]
  /\ UNCHANGED opened

\* The room_send request reaches the homeserver while the call awaits its
\* response: the command appears in the control room.  A request that fails
\* with an exception raises; an error response is not inspected, and the call
\* goes on to its wait loop.
OsSendArrives(p) ==
  /\ pc[p] = "os_send"
  /\ \E o \in Outcomes(Usable(loc[p].on)) :
       /\ faults' = FaultsAfter(Usable(loc[p].on), o)
       /\ IF o = "ok"
          THEN /\ published' = published \cup {loc[p].cmd}
               /\ pc' = [pc EXCEPT ![p] = "os_sent"]
               /\ UNCHANGED <<opened, loc>>
          ELSE /\ UNCHANGED published
               /\ IF o = "exception" THEN OsRaises(p, "raised") ELSE OsEnterLoop(p)
  /\ UNCHANGED <<botVars, clients, authed, timeline, now, ticks, calls, timedOut>>
  /\ UNCHANGED <<decodeVars, scanVars, purgeVars>>

\* await client.room_send(...) returns: the response of the homeserver has
\* come back to the call.
OsSendDone(p) ==
  /\ pc[p] = "os_sent"
  /\ OsEnterLoop(p)
  /\ UNCHANGED <<botVars, clients, authed, timeline, published, now, ticks, faults,
                 calls, timedOut>>
  /\ UNCHANGED <<decodeVars, scanVars, purgeVars>>

\* A sync of the wait loop completes.  The first event of the responder at or
\* after query_time is the response and ends the loop; without one the loop
\* test runs again, and the loop ends without a response after
\* timeout_seconds.  Then the logout is issued.  An error response has no
\* next_batch, which raises like an exception of the sync.
OsWaitDone(p) ==
  /\ pc[p] = "os_wait"
  /\ \E o \in Outcomes(Usable(loc[p].on)) :
       LET hit == FirstResponse(NewEvents(timeline, loc[p].next_batch),
                                loc[p].query_time, NoPattern)
       IN /\ faults' = FaultsAfter(Usable(loc[p].on), o)
          /\ IF o # "ok" THEN OsRaises(p, "raised")
             ELSE /\ UNCHANGED opened
                  /\ IF hit # NoMsg
                     THEN /\ pc' = [pc EXCEPT ![p] = "os_logout"]
                          /\ loc' = [loc EXCEPT ![p].resp = hit,
                                                ![p].next_batch = Len(timeline)]
                     ELSE /\ pc' = [pc EXCEPT ![p] =
                                      IF LoopRuns(now, loc[p].start, OneShotTimeout)
                                      THEN "os_wait" ELSE "os_logout"]
                          /\ loc' = [loc EXCEPT ![p].next_batch = Len(timeline)]
  /\ UNCHANGED <<botVars, clients, authed, timeline, published, now, ticks, calls,
                 timedOut>>
  /\ UNCHANGED <<decodeVars, scanVars, purgeVars>>

\* await client.logout() completes, then client.close().  Without a response
\* HTTPException(504) is raised, which the except branch turns into 500; with
\* one the call goes on to decode it and returns.
OsLogoutDone(p) ==
  /\ pc[p] = "os_logout"
  /\ \E o \in Outcomes(Usable(loc[p].on)) :
       /\ faults' = FaultsAfter(Usable(loc[p].on), o)
       /\ authed' = IF o = "ok" THEN authed \ {loc[p].on} ELSE authed
       /\ IF o = "exception" THEN OsRaises(p, "raised")
          ELSE /\ opened' = opened \ {loc[p].on}
               /\ pc' = [pc EXCEPT ![p] = "idle"]
               /\ loc' = [loc EXCEPT ![p] =
                            IF loc[p].resp = NoMsg
                            THEN Ended(p, loc[p], "timeout", NoMsg)
                            ELSE Ended(p, loc[p], "returned", loc[p].resp)]
  /\ UNCHANGED <<botVars, clients, timeline, published, now, ticks, calls, timedOut>>
  /\ UNCHANGED <<decodeVars, scanVars, purgeVars>>

\* The responder answers a published command of a one-shot call: its reply
\* appears in the control room with the current server time.
OsReply ==
  /\ Len(timeline) < MaxMsgs
  /\ \E p \in Callers : pc[p] \in {"os_sent", "os_wait"}
  /\ \E c \in published :
       timeline' = Append(timeline, [sender |-> Responder, ts |-> now, re |-> c,
                                     body |-> "done"])
  /\ UNCHANGED <<botVars, clients, authed, opened, published, now, ticks, faults,
                 calls, timedOut, pc, loc>>
  /\ UNCHANGED <<decodeVars, scanVars, purgeVars>>

\* Time passes while a one-shot call awaits the response of its room_send or
\* of a sync.
OsTick ==
  /\ ticks < MaxTicks
  /\ \E p \in Callers : pc[p] \in {"os_sent", "os_wait"}
  /\ \E d \in OneShotSteps : now' = now + d
  /\ ticks' = ticks + 1
  /\ UNCHANGED <<botVars, netVars, faults, calls, timedOut, pc, loc>>
  /\ UNCHANGED <<decodeVars, scanVars, purgeVars>>

OneShotStep(p) ==
  \/ OsStart(p)
  \/ OsLoginDone(p)
  \/ OsJoinDone(p)
  \/ OsInitSyncDone(p)
  \/ OsSendArrives(p)
  \/ OsSendDone(p)
  \/ OsWaitDone(p)
  \/ OsLogoutDone(p)


\* ------------------------------------------- the purge of registrations
\* purge_unfulfilled_registrations (routes/admin.py).  The handler asks the
\* homeserver, entry by entry, whether the requested name is still available;
\* an action is one of these requests ending and the handler running on to
\* the next request, or to save_registrations and its result.

MaxEntries == 2            \* entries of registrations.json

DefaultMinAge == 24        \* min_age_hours: int = Form(default=24)

\* An entry on file: the requested name and, for entry["datetime"], the hours
\* from it to current_time.
Names == {"alice", "bob"}
Ages == {DefaultMinAge - 1, DefaultMinAge, DefaultMinAge + 1}
Entries == [requested_name : Names, age : Ages]

RegistrationFiles == UNION {[1..n -> Entries] : n \in 0..MaxEntries}

\* The values of min_age_hours the operator posts.
MinAges == {0, DefaultMinAge}

\* What the GET of /register/available ends with: a response with its status
\* code and the "available" field of its body, or httpx.RequestError.
CheckReply(status, available, failed) ==
  [status |-> status, available |-> available, failed |-> failed]

RequestError == CheckReply(0, FALSE, TRUE)

CheckReplies ==
  {CheckReply(200, TRUE, FALSE), CheckReply(200, FALSE, FALSE),
   CheckReply(400, FALSE, FALSE), CheckReply(500, FALSE, FALSE), RequestError}

\* if status_code == 200 and json().get("available", False): exists = False
\* elif status_code == 400 or (status_code == 200 and not available): exists = True
\* else: exists = False
\* except httpx.RequestError: exists = False
Exists(r) ==
  IF r.failed THEN FALSE
  ELSE IF r.status = 200 /\ r.available THEN FALSE
  ELSE IF r.status = 400 \/ (r.status = 200 /\ ~r.available) THEN TRUE
  ELSE FALSE

\* if age < timedelta(hours=min_age_hours)
TooNew(age, min_age_hours) == age < min_age_hours

InitPurge ==
  [at |-> "new",           \* "check": the GET of entry i is awaited
   min_age_hours |-> DefaultMinAge,
   entries |-> <<>>,       \* registrations, as load_registrations returned it
   i |-> 0,                \* the place in entries of the entry in work
   entries_to_keep |-> <<>>,
   removed_count |-> 0,
   too_new_count |-> 0,
   exists_count |-> 0,
   replies |-> <<>>,       \* what the GET of each entry ended with
   fate |-> <<>>,          \* the branch each entry took
   result |-> <<>>]        \* the counts of the JSON response

PurgeIdle == registrations = <<>> /\ purge = InitPurge

\* The operator posts the form: registrations = load_registrations(); with no
\* entries the handler returns its message; else the GET of the first entry
\* is issued.
PurgeStart ==
  /\ purge.at = "new"
  /\ purge' = IF registrations = <<>>
              THEN [purge EXCEPT !.at = "done"]
              ELSE [purge EXCEPT !.at = "check", !.entries = registrations, !.i = 1]
  /\ UNCHANGED <<registrations, busVars, decodeVars, scanVars>>

\* The body of the for loop after the GET of the entry in work ended with r.
AfterCheck(g, r) ==
  LET entry == g.entries[g.i]
      seen == [g EXCEPT !.replies = Append(@, r), !.i = @ + 1]
  IN IF Exists(r)
     THEN [seen EXCEPT !.entries_to_keep = Append(@, entry), !.exists_count = @ + 1,
                       !.fate = Append(@, "kept_existing")]
     ELSE IF TooNew(entry.age, g.min_age_hours)
     THEN [seen EXCEPT !.entries_to_keep = Append(@, entry), !.too_new_count = @ + 1,
                       !.fate = Append(@, "kept_recent")]
     ELSE [seen EXCEPT !.removed_count = @ + 1, !.fate = Append(@, "removed")]

\* After the loop: save_registrations(entries_to_keep) and the result.
PurgeResult(g) ==
  [message |-> "Cleanup complete",
   kept_existing |-> g.exists_count,
   kept_recent |-> g.too_new_count,
   removed |-> g.removed_count,
   total_remaining |-> Len(g.entries_to_keep)]

\* The GET of the entry in work ends.  After the last entry the kept entries
\* are written to the file and the counts returned.
PurgeCheckDone ==
  /\ purge.at = "check"
  /\ \E r \in CheckReplies :
       LET g == AfterCheck(purge, r)
       IN IF g.i <= Len(g.entries)
          THEN /\ purge' = g
               /\ UNCHANGED registrations
          ELSE /\ purge' = [g EXCEPT !.at = "done", !.result = <<PurgeResult(g)>>]
               /\ registrations' = g.entries_to_keep
  /\ UNCHANGED <<busVars, decodeVars, scanVars>>


DecodeIdle == response = <<>> /\ decoded = <<>>

Init == BusInit /\ DecodeIdle /\ ScanIdle /\ PurgeIdle

Next ==
  \/ \E p \in Callers : EcAcquire(p)
  \/ ~WaiterReady /\ Environment
  \/ ~WaiterReady /\ \E p \in Callers : CallerStep(p)

Spec == Init /\ [][Next]_vars

\* One caller alone: the calls follow one another.
SeqNext == Environment \/ CallerStep(FirstCaller)

SeqSpec == Init /\ [][SeqNext]_vars

\* One caller alone, with every awaited call completing and time passing:
\* the event loop resumes a coroutine whose awaited call has completed, each
\* network call completes (with a result, an error or an exception), and the
\* clock moves on while a wait loop polls and sleeps.
FairSeqNext == SeqNext \/ Elapse

FairSeqSpec ==
  /\ Init
  /\ [][FairSeqNext]_vars
  /\ WF_vars(CallerStep(FirstCaller))
  /\ WF_vars(Elapse)

\* Two concurrent callers in a silent control room, with every awaited call
\* completing and time passing: asyncio.Lock wakes the caller suspended on
\* it when it is released, the event loop resumes a coroutine whose awaited
\* call has completed, each network call completes, and the clock moves on
\* while a wait loop polls and sleeps.
FairNext ==
  \/ \E p \in Callers : EcAcquire(p)
  \/ ~WaiterReady /\ (Tick \/ Elapse)
  \/ ~WaiterReady /\ \E p \in Callers : CallerStep(p)

FairSpec ==
  /\ Init
  /\ [][FairNext]_vars
  /\ \A p \in Callers : WF_vars(EcAcquire(p))
  /\ \A p \in Callers : WF_vars(~WaiterReady /\ CallerStep(p))
  /\ WF_vars(~WaiterReady /\ Elapse)

\* The decoders alone, on every reply of up to MaxLines lines.
DecodeInit ==
  BusInit /\ ScanIdle /\ PurgeIdle /\ response \in Responses /\ decoded = <<>>

DecodeSpec == DecodeInit /\ [][Decode]_vars

\* One moderation scan, alone on the bot.
ScanNext == ScanStart \/ ConnectDone \/ PageDone \/ MembersDone

ScanSpec == Init /\ [][ScanNext]_vars

\* One handler running one-shot operations, one after another.
OneShotNext == OsReply \/ OsTick \/ OneShotStep(FirstCaller)

OneShotSpec == Init /\ [][OneShotNext]_vars

\* One purge, on every file of up to MaxEntries entries.
PurgeInit ==
  /\ BusInit /\ DecodeIdle /\ ScanIdle
  /\ registrations \in RegistrationFiles
  /\ \E m \in MinAges : purge = [InitPurge EXCEPT !.min_age_hours = m]

PurgeNext == PurgeStart \/ PurgeCheckDone

PurgeSpec == PurgeInit /\ [][PurgeNext]_vars

\* The bot some time after a first ensure_connected() returned: _connect made
\* client 1, logged it in, and set connected = True and last_activity to the
\* clock, which read 1; SessionAge seconds have passed since, without a call.
AgedInit ==
  /\ client = 1
  /\ connected = TRUE
  /\ lock = 0
  /\ last_activity = 1
  /\ now = 1 + SessionAge
  /\ ticks = 0
  /\ faults = 0
  /\ clients = 1
  /\ authed = {1}
  /\ opened = {1}
  /\ timeline = <<>>
  /\ published = {}
  /\ calls = 0
  /\ timedOut = {}
  /\ pc = [p \in Callers |-> "idle"]
  /\ loc = [p \in Callers |-> InitLoc]
  /\ DecodeIdle
  /\ ScanIdle
  /\ PurgeIdle

\* Two concurrent callers on the aged session.
AgedSpec == AgedInit /\ [][Next]_vars

\* ------------------------------------------------------------- the claims

Returned(p) == loc[p].op = "cmd" /\ loc[p].outcome = "returned"

InTimeline(m) == \E i \in 1..Len(timeline) : timeline[i] = m

\* C1: the body send_admin_command returns is that of a control-room message
\* sent by the designated responder with an event time at or after the issue
\* time of the command; no earlier or foreign message is returned.
C1_ReturnsOnlyEligible ==
  \A p \in Callers :
    Returned(p) =>
      /\ InTimeline(loc[p].resp)
      /\ loc[p].resp.sender = Responder
      /\ loc[p].resp.ts >= loc[p].query_time

\* C1 witness: a call returned the second message of the stream, after
\* passing over a first one that was not eligible.
C1_Witness ==
  \E p \in Callers :
    /\ Returned(p)
    /\ Len(timeline) = 2
    /\ loc[p].resp = timeline[2]
    /\ timeline[1] # timeline[2]

\* Caller p waits for the reply to its published command.
Waiting(p) == pc[p] \in {"wait_sync", "sleep"}

\* C2: of two send_admin_command cycles interleaved on the session, neither
\* returns the responder's reply to the other cycle's command.
C2_NoCrossTalk ==
  \A p, q \in Callers :
    (p # q /\ Returned(p) /\ Waiting(q)) => loc[p].resp.re # loc[q].cmd

\* C3: with the commands issued one after another, the response returned for
\* a command is not the responder's reply to an earlier command whose call
\* had timed out.
C3_NoLateReplyOfEarlierCommand ==
  \A p \in Callers :
    Returned(p) => ~(loc[p].resp.re \in timedOut /\ loc[p].resp.re # loc[p].cmd)

\* C4: when send_admin_command raises Timeout the session is still marked
\* connected afterwards (the caller is alone on the bot here, so nothing else
\* touches the session after the call ended).
C4_TimeoutKeepsConnected ==
  \A p \in Callers :
    (pc[p] = "idle" /\ loc[p].outcome = "timeout") => connected

\* C6: every poll send_admin_command makes is issued on a session that is
\* marked connected at that moment.
C6_PollsOnlyWhenConnected ==
  \A p \in Callers :
    pc[p] \in {"pre_sync", "wait_sync"} => loc[p].pollConn

\* The clients that are logged in and whose transport is open.
Live == authed \cap opened

\* C7: at most one authenticated session of the bot is live at any moment.
C7_AtMostOneLiveSession == Cardinality(Live) <= 1

\* C5: a failed publish ends the call with an error and the session marked
\* disconnected; an ensure_connected that finds the session marked
\* disconnected creates a new client and logs in, the join follows the login
\* and the initial sync the join, and the caller reaches its pre-send poll
\* only from the completed initial sync.
C5_SendFailureThenFullReconnect ==
  [][\A p \in Callers :
       /\ (pc[p] = "send" /\ pc'[p] = "idle") =>
             (loc'[p].outcome = "raised" /\ ~connected')
       /\ (~connected /\ pc[p] = "idle" /\ LockFree(lock)
             /\ (pc'[p] # "idle" \/ loc'[p] # loc[p])) =>
             (pc'[p] = "login" /\ lock' = p /\ client' = clients + 1)
       /\ (~connected /\ pc[p] = "ec_lock" /\ pc'[p] # "ec_lock") =>
             (pc'[p] = "login" /\ lock' = p /\ client' = clients + 1)
       /\ (pc'[p] = "join" /\ pc[p] # "join") => pc[p] = "login"
       /\ (pc'[p] = "init_sync" /\ pc[p] # "init_sync") => pc[p] = "join"
       /\ (~connected /\ pc'[p] = "pre_sync" /\ pc[p] # "pre_sync") =>
             (pc[p] = "init_sync" /\ connected' /\ loc'[p].on = client')
    ]_vars

\* C5 witness: the publish of one call failed on the first client, and the
\* next call, not forced and not stale, reconnected with a second client and
\* is at its pre-send poll.
C5_Witness ==
  \E p, q \in Callers :
    /\ p # q
    /\ loc[q].at = "send" /\ loc[q].outcome = "raised"
    /\ pc[p] = "pre_sync" /\ ~loc[p].retry /\ loc[p].on = 2
    /\ clients = 2 /\ connected /\ now = 1

\* Caller p is inside _disconnect or _connect.
Connecting(p) == pc[p] \in {"logout", "close", "login", "join", "init_sync"}

C9_SecondEnsureIsNoOp ==
  (/\ calls >= 2 /\ faults = 0 /\ published = {}
   /\ now - 1 <= StaleAfter
   /\ pc[FirstCaller] = "idle")
  => (/\ clients = 1 /\ client = 1 /\ connected
      /\ authed = {1} /\ opened = {1} /\ lock = 0)

\* C9 witness: the second ensure_connected returned.
C9_Witness ==
  /\ calls = 2 /\ faults = 0 /\ published = {}
  /\ pc[FirstCaller] = "idle"
  /\ loc[FirstCaller].op = "ensure" /\ loc[FirstCaller].outcome = "returned"
  /\ clients = 1 /\ connected

\* C10: a call issues room_send at most once, and a call that ended either
\* returned the body of a message or raised.
C10_AtMostOnePublish ==
  \A p \in Callers :
    /\ loc[p].sends <= 1
    /\ (pc[p] = "idle" /\ loc[p].op = "cmd") =>
          \/ loc[p].outcome = "returned" /\ loc[p].resp # NoMsg
          \/ loc[p].outcome \in {"raised", "timeout"} /\ loc[p].resp = NoMsg

\* C10 witness: the pre-send poll failed, the forced reconnect happened, and
\* the command was then published once.
C10_Witness ==
  \E p \in Callers :
    /\ loc[p].retry
    /\ loc[p].sends = 1
    /\ Waiting(p)

\* C11: a call whose pre-send poll came back with an error has ended there:
\* it issues no room_send and its command never reaches the control room.
C11_PreSendErrorNeverPublishes ==
  \A p \in Callers :
    loc[p].retry => (loc[p].sends = 0 /\ loc[p].cmd \notin published)

\* C12: the cursor a poll is issued with, and the cursor a command is
\* published under, was given by a sync response of the very client the
\* request goes to.
C12_CursorStaysOnItsSession ==
  \A p \in Callers :
    pc[p] \in {"send", "wait_sync"} => loc[p].on = loc[p].cursorOn

\* C13: a call made with a response pattern returns only from a poll whose
\* slice holds a responder message at or after the issue time with a body the
\* pattern is found in, and returns the first such message of the slice; a
\* poll that came back well does return it when there is one; and when the
\* call does not return, it goes on waiting.
C13_ReturnsFirstMatch ==
  [][\A p \in Callers :
       (pc[p] = "wait_sync" /\ loc[p].pattern # NoPattern) =>
         LET evs == NewEvents(timeline, loc[p].next_batch)
             good == {i \in 1..Len(evs) :
                        /\ evs[i].sender = Responder
                        /\ evs[i].ts >= loc[p].query_time
                        /\ Search(loc[p].pattern, evs[i].body)}
             first == CHOOSE i \in good : \A j \in good : i <= j
             returns == pc'[p] = "idle" /\ loc'[p].outcome = "returned"
         IN /\ returns => (good # {} /\ loc'[p].resp = evs[first])
            /\ (good # {} /\ Usable(loc[p].on) /\ faults' = faults
                  /\ pc'[p] # "wait_sync") => returns
            /\ (~returns /\ pc'[p] # "wait_sync") => pc'[p] = "sleep"
    ]_vars

\* C13 witness: a call with a pattern returned the second message of the
\* stream, the result of its command, after the responder's status line for
\* the same command, which was eligible but did not match.
C13_Witness ==
  \E p \in Callers :
    /\ Returned(p)
    /\ loc[p].pattern = "done"
    /\ Len(timeline) = 2
    /\ timeline[1] = [sender |-> Responder, ts |-> loc[p].query_time,
                      re |-> loc[p].cmd, body |-> "status"]
    /\ loc[p].resp = timeline[2]
    /\ timeline[2].body = "done"

\* C16: send_matrix_admin_command reports "command timed out" only for a call
\* whose transport worked: not for one whose polls for the reply all failed.
C16_TimeoutMeansTransportWorked ==
  [][\A p \in Callers :
       (pc[p] # "idle" /\ pc'[p] = "idle" /\ loc[p].op = "cmd"
          /\ CommandReport(loc'[p].outcome) = "command timed out")
       => loc[p].goodPoll
    ]_vars

\* C19: in every call the pre-send poll follows the return of
\* ensure_connected, with nothing sent yet; room_send is issued from the
\* completed pre-send poll, which fixes the cursor at the end of the stream
\* and the issue time at the clock; the command reaches the control room only
\* through that room_send; and every message that appears once room_send is
\* issued lies after the cursor, the responder's replies to the command
\* carrying an event time at or after the issue time.
C19_PollThenIssueTimeThenPublish ==
  [][\A p \in Callers :
       /\ (pc'[p] = "pre_sync" /\ pc[p] # "pre_sync") =>
            /\ pc[p] \in {"idle", "ec_lock", "init_sync"}
            /\ lock' # p
            /\ loc'[p].sends = 0
            /\ loc'[p].cmd \notin published'
       /\ (pc'[p] = "send" /\ pc[p] # "send") =>
            /\ pc[p] = "pre_sync"
            /\ loc'[p].next_batch = Len(timeline)
            /\ loc'[p].query_time = now
            /\ loc'[p].cmd \notin published'
       /\ (loc[p].cmd \in published' /\ loc[p].cmd \notin published) => pc[p] = "send"
       /\ (pc[p] \in {"send", "wait_sync", "sleep"} /\ Len(timeline') > Len(timeline)) =>
            LET m == timeline'[Len(timeline')]
            IN /\ Len(timeline') > loc[p].next_batch
               /\ m.re = loc[p].cmd => m.ts >= loc[p].query_time
    ]_vars

\* C19 witness: a message appeared during the pre-send poll and lies behind
\* the cursor; the command was then published, and the responder's reply to
\* it is the next message, after the cursor.
C19_Witness ==
  \E p \in Callers :
    /\ Waiting(p)
    /\ ~loc[p].goodPoll
    /\ loc[p].next_batch = 1
    /\ Len(timeline) = 2
    /\ timeline[2].re = loc[p].cmd
    /\ timeline[2].ts >= loc[p].query_time

\* C20: when room_send or a poll of the wait loop comes back with a fault (a
\* network fault, or a client that is logged out or closed), the call ends
\* there with an error and the session is marked disconnected.
C20_FaultEndsTheCall ==
  [][\A p \in Callers :
       (pc[p] \in {"send", "wait_sync"} /\ pc'[p] # pc[p]
          /\ (faults' > faults \/ ~Usable(loc[p].on)))
       => (pc'[p] = "idle" /\ loc'[p].outcome = "raised" /\ ~connected')
    ]_vars

\* The decoders ran on the reply.
Decoded == decoded # <<>>

\* The reply holds no line ending in a colon, no room line and no member
\* line: nothing of the expected shape.
Unparseable(resp) == \A i \in 1..Len(resp) : resp[i].k \in {"text", "fence"}

\* C17: for a reply that cannot be parsed into the expected shape every
\* decoder gives its empty result, and none raises.
C17_UnparseableGivesDefaults ==
  (Decoded /\ Unparseable(response)) =>
     /\ decoded[1].stream_rooms = <<>>
     /\ decoded[1].stream_members = <<>>
     /\ decoded[1].rooms = <<>>
     /\ decoded[1].users = <<>>
     /\ ~decoded[1].members.raised
     /\ decoded[1].members.local_members = <<>>

\* One summary per well-formed room line of the lines, in their order.
WellFormedRooms(lines) ==
  LET at == {i \in 1..Len(lines) : lines[i].k = "room"}
      nth(k) == CHOOSE i \in at : Cardinality({j \in at : j <= i}) = k
  IN [k \in 1..Cardinality(at) |->
        [room_id |-> lines[nth(k)].id, members |-> lines[nth(k)].n,
         name |-> lines[nth(k)].name]]

\* C18 as claimed: both decoders of the room list give one summary per
\* well-formed room line of the reply, in the order of the lines.
C18_BothDecodersAgree ==
  Decoded =>
     /\ decoded[1].stream_rooms = WellFormedRooms(response)
     /\ decoded[1].rooms = WellFormedRooms(response)

\* The reply is one labelled fenced block and nothing else.
OneBlock(resp) ==
  /\ Len(resp) >= 4
  /\ resp[1].k = "label" /\ resp[2].k = "fence" /\ resp[Len(resp)].k = "fence"
  /\ \A i \in 3..(Len(resp) - 1) : resp[i].k \notin {"label", "fence"}

\* C18 amended: parse_rooms_response gives one summary per well-formed room
\* line of the whole reply, in the order of the lines; get_matrix_rooms gives
\* a run of these summaries in the same order, all of them when the reply is
\* one labelled fenced block, and none when the reply has no label line.
C18_RoomListDecoding ==
  Decoded =>
     LET all == WellFormedRooms(response)
     IN /\ decoded[1].stream_rooms = all
        /\ \E a \in 1..(Len(all) + 1), b \in 0..Len(all) :
             decoded[1].rooms = SubSeq(all, a, b)
        /\ OneBlock(response) => decoded[1].rooms = all
        /\ (\A i \in 1..Len(response) : response[i].k # "label") => decoded[1].rooms = <<>>

\* C18 witness: a labelled fenced block of two room lines was decoded to the
\* two summaries, in the order of the lines, by both decoders.
C18_Witness ==
  /\ Decoded
  /\ response = <<LabelLine, FenceLine, Line("room", "!b", 5, "ok"),
                  Line("room", "!a", 5, "bad"), FenceLine>>
  /\ decoded[1].rooms = <<[room_id |-> "!b", members |-> 5, name |-> "ok"],
                          [room_id |-> "!a", members |-> 5, name |-> "bad"]>>
  /\ decoded[1].stream_rooms = decoded[1].rooms

\* C14: the last event of a scan that ended is the 'complete' event carrying
\* the number of rooms scanned and the number of banned-name rooms found.
C14_LastEventCarriesTotals ==
  gen.at = "done" =>
     /\ emitted[Len(emitted)].kind = "complete"
     /\ emitted[Len(emitted)].checked = gen.total_rooms
     /\ emitted[Len(emitted)].found = gen.total_banned

\* A member-list command of the scan has timed out.
MemberTimedOut == \E i \in 1..Len(emitted) : emitted[i].kind = "member_timeout"

\* C15: a member-list command that times out yields one error event for its
\* room, after which the scan is at the next matched room of the page or at
\* the command of the next page; and from then on the scan ends only on a
\* page command that failed or on the responder's reply to a page command,
\* so that what the responder lists afterwards is examined.
C15_MemberTimeoutDoesNotEndScan ==
  [][/\ (gen.at = "members" /\ gen' # gen /\ gen'.got = "timeout") =>
          /\ Len(emitted') = Len(emitted) + 2
          /\ SubSeq(emitted', 1, Len(emitted)) = emitted
          /\ emitted'[Len(emitted) + 1].kind = "member_timeout"
          /\ emitted'[Len(emitted) + 1].room = gen.rooms[gen.idx].room_id
          /\ \/ /\ gen'.at = "members" /\ gen'.idx > gen.idx /\ gen'.rooms = gen.rooms
                /\ emitted'[Len(emitted) + 2].kind = "banned_room_found"
             \/ /\ gen'.at = "page" /\ gen'.page = gen.page + 1
                /\ emitted'[Len(emitted) + 2].kind = "progress"
     /\ (MemberTimedOut /\ gen.at = "page" /\ gen'.at = "done") =>
          gen'.got \in {"reply", "timeout", "error"}
    ]_vars

\* Caller q holds the response of a poll that came back well on the client
\* the bot holds now: while its room_send or its wait loop is under way,
\* cursorOn is the client that gave its cursor and query_time a time at or
\* before that poll.
PolledSince(q) ==
  /\ pc[q] \in {"send", "wait_sync", "sleep"}
  /\ loc[q].cursorOn = client
  /\ loc[q].cursorOn # NoClient

\* C21: ensure_connected called without the force flag starts no teardown of
\* a connected session on which a poll came back well within the last 300
\* seconds.
C21_FreshSessionLeftUntouched ==
  [][\A p \in Callers :
       (pc'[p] = "logout" /\ pc[p] # "logout" /\ ~loc'[p].force) =>
          ~\E q \in Callers :
              /\ q # p
              /\ PolledSince(q)
              /\ now - loc[q].query_time <= StaleAfter
    ]_vars

\* C22: a connect whose login, join or initial sync comes back with a
\* failure raises, leaving the session disconnected with no client and no
\* second client created; and the session becomes connected only by the
\* initial sync of a connect coming back well, which stamps last_activity.
C22_ConnectedOnlyAfterAllThree ==
  [][/\ \A p \in Callers :
          (pc[p] \in {"login", "join", "init_sync"} /\ pc'[p] # pc[p]
             /\ (faults' > faults \/ (pc[p] # "login" /\ ~Usable(loc[p].on))))
          => (/\ pc'[p] = "idle" /\ loc'[p].outcome = "raised"
              /\ ~connected' /\ client' = NoClient /\ clients' = clients)
     /\ (connected' /\ ~connected) =>
          \E p \in Callers :
             /\ pc[p] = "init_sync" /\ pc'[p] # "init_sync"
             /\ faults' = faults
             /\ last_activity' = now
    ]_vars

\* C23: when _disconnect ends, also after a logout that failed, the session
\* is marked disconnected, the client it held is held no more, and the
\* transport of that client has been closed.
C23_DisconnectReleasesTransport ==
  [][\A p \in Callers :
       (pc[p] \in {"logout", "close"} /\ pc'[p] \notin {"logout", "close"}) =>
          /\ ~connected'
          /\ client' # loc[p].on
          /\ loc[p].on \notin opened'
    ]_vars

\* The step leads to a state in which a client is held by a session marked
\* disconnected, from a state that was not so.
HeldButDisconnected ==
  /\ client' # NoClient /\ ~connected'
  /\ client = NoClient \/ connected

\* The step is a send_admin_command call ending with an exception.
CommandFails ==
  \E p \in Callers :
     /\ pc[p] # "idle" /\ pc'[p] = "idle"
     /\ loc'[p].op = "cmd" /\ loc'[p].outcome \in {"raised", "timeout"}

\* The step is _connect creating its client and issuing the login.
ConnectBegins == \E p \in Callers : pc'[p] = "login" /\ pc[p] # "login"

\* C29 as claimed: the bot is never marked connected without holding a
\* client, and it comes to hold a client while marked disconnected only by a
\* command ending with an error.
C29_ConverseFailsOnlyAfterCommandError ==
  [][/\ connected' => client' # NoClient
     /\ HeldButDisconnected => CommandFails
    ]_vars

\* C29 amended: the bot is never marked connected without holding a client,
\* and it comes to hold a client while marked disconnected only by a command
\* ending with an error or by _connect creating the client it is about to
\* log in.
C29_ConnectedImpliesClient ==
  [][/\ connected' => client' # NoClient
     /\ HeldButDisconnected => (CommandFails \/ ConnectBegins)
    ]_vars

\* C29 witness: a command ended with an error at its room_send on a connected
\* session: no connect is in flight, the client is still held and the session
\* is marked disconnected.
C29_Witness ==
  \E p \in Callers :
     /\ pc[p] = "idle" /\ loc[p].op = "cmd"
     /\ loc[p].outcome = "raised" /\ loc[p].at = "send"
     /\ lock = 0
     /\ client # NoClient /\ ~connected

\* The places of the stream at which an event of one of the kinds stands.
Places(kinds) == {i \in 1..Len(emitted) : emitted[i].kind \in kinds}

\* C25: the stream of a scan begins with 'starting'; 'connected' stands
\* before every page progress event; 'complete' or the fatal error event
\* stands only at the end of the stream, and a scan that ended has one of
\* them there; and a stream that holds an aborting error (the error of a
\* page command, or the fatal one) holds no 'complete'.
C25_OneTerminalEvent ==
  /\ emitted # <<>> => emitted[1].kind = "starting"
  /\ \A i \in Places({"progress"}) : \E j \in Places({"connected"}) : j < i
  /\ \A i \in Places({"complete", "fatal"}) : i = Len(emitted) /\ gen.at = "done"
  /\ gen.at = "done" => emitted[Len(emitted)].kind \in {"complete", "fatal"}
  /\ Places({"page_error", "fatal"}) # {} => Places({"complete"}) = {}

\* The events that close the member-list lookup of a room.
MemberKinds == {"room_members", "member_timeout", "member_error"}

\* C26: while the member-list command of a room is awaited, the
\* banned_room_found event of that room is the last event of the stream; every
\* banned_room_found event that is not the last is followed at once by one
\* room_members or per-room error event of the same room, and every such
\* event follows the banned_room_found event of its room; the k-th
\* banned_room_found event carries total_found = k; and the 'complete' event
\* carries the number of banned_room_found events as its banned count.
C26_FoundThenMembers ==
  LET found == Places({"banned_room_found"})
  IN /\ gen.at = "members" =>
          /\ emitted[Len(emitted)].kind = "banned_room_found"
          /\ emitted[Len(emitted)].room = gen.rooms[gen.idx].room_id
     /\ \A i \in found :
          /\ emitted[i].found = Cardinality({j \in found : j <= i})
          /\ IF i = Len(emitted) THEN gen.at = "members"
             ELSE /\ emitted[i + 1].kind \in MemberKinds
                  /\ emitted[i + 1].room = emitted[i].room
     /\ \A i \in Places(MemberKinds) :
          /\ i > 1
          /\ emitted[i - 1].kind = "banned_room_found"
          /\ emitted[i - 1].room = emitted[i].room
     /\ \A i \in Places({"complete"}) : emitted[i].found = Cardinality(found)

\* C26 witness: a scan ended with 'complete' after two matched rooms, the
\* first answered with its member list and the second with the error event of
\* a timeout; the 'complete' event counts two.
C26_Witness ==
  /\ gen.at = "done"
  /\ emitted[Len(emitted)].kind = "complete"
  /\ emitted[Len(emitted)].found = 2
  /\ \E i, j \in Places({"banned_room_found"}) :
       /\ i < j
       /\ emitted[i + 1].kind = "room_members"
       /\ emitted[j + 1].kind = "member_timeout"

\* C27: once a one-shot operation has recorded its issue time, every reply of
\* the responder to its command (each one produced after the command reached
\* the control room) passes the filter of the wait loop.
C27_ReplyAfterPublishIsEligible ==
  \A p \in Callers :
     pc[p] \in {"os_wait", "os_logout"} =>
        \A i \in 1..Len(timeline) :
           timeline[i].re = loc[p].cmd => Eligible(timeline[i], loc[p].query_time)

\* The homeserver confirmed that the name is still available.
ConfirmedAvailable(r) == ~r.failed /\ r.status = 200 /\ r.available

\* The check of the name failed: a request error, or an unexpected status.
CheckFailed(r) == r.failed \/ r.status \notin {200, 400}

\* C30: a purge that ended removed an entry only if the homeserver confirmed
\* its name available and the entry is at least min_age_hours old; it kept
\* every entry whose check failed; the file holds the kept entries in their
\* order; and the counts add up: kept_existing + kept_recent =
\* total_remaining, and total_remaining + removed = the entries before.
C30_PurgeRemovesOnlyConfirmed ==
  (purge.at = "done" /\ purge.result # <<>>) =>
     LET r == purge.result[1]
     IN /\ \A k \in 1..Len(purge.entries) :
             /\ purge.fate[k] = "removed" =>
                   /\ ConfirmedAvailable(purge.replies[k])
                   /\ purge.entries[k].age >= purge.min_age_hours
             /\ CheckFailed(purge.replies[k]) => purge.fate[k] # "removed"
        /\ Len(registrations) = r.total_remaining
        /\ r.kept_existing + r.kept_recent = r.total_remaining
        /\ r.total_remaining + r.removed = Len(purge.entries)

\* C24: a send_admin_command call that is under way eventually ends, with a
\* response or an exception; and a call that comes back from a sleep of its
\* wait loop with the timeout used up raises TimeoutError, whatever its polls
\* gave.
C24_CallTerminates ==
  /\ \A p \in Callers : (loc[p].op = "cmd" /\ pc[p] # "idle") ~> (pc[p] = "idle")
  /\ [][\A p \in Callers :
          (pc[p] = "sleep" /\ pc'[p] # "sleep"
             /\ now - loc[p].start >= DefaultTimeout)
          => (pc'[p] = "idle" /\ loc'[p].outcome = "timeout")
       ]_vars

\* C24 witness: a call made with a pattern raised TimeoutError although the
\* responder had answered its command, with a status line the pattern is not
\* found in.
C24_Witness ==
  \E p \in Callers :
     /\ pc[p] = "idle" /\ loc[p].op = "cmd"
     /\ loc[p].outcome = "timeout" /\ loc[p].pattern = "done"
     /\ \E i \in 1..Len(timeline) :
          /\ timeline[i].re = loc[p].cmd
          /\ timeline[i].body = "status"
          /\ Eligible(timeline[i], loc[p].query_time)

\* C28: the lock is held only by a caller inside the body of
\* ensure_connected, so it is released on every way out of it; a caller
\* suspended on the lock does not hold it; and a caller suspended on the lock
\* eventually gets on, into the body of ensure_connected.
C28_LockNeverDeadlocks ==
  /\ [](\A p \in Callers :
          /\ lock = p => Connecting(p)
          /\ pc[p] = "ec_lock" => lock # p)
  /\ \A p \in Callers : (pc[p] = "ec_lock") ~> (pc[p] # "ec_lock")

\* C28 witness: the forced reconnect of a send_admin_command found the lock
\* held by a connect in flight, was suspended on it, and now holds it.
C28_Witness ==
  \E p \in Callers :
     /\ loc[p].retry /\ loc[p].force
     /\ loc[p].waitFor # NoClient
     /\ lock = p

====
